---------------------------- MODULE Spec2Model ----------------------------
(***************************************************************************)
(* A model of bbengfort/sequence: the AtomicSequence counter               *)
(* (Init, Next, Restart, Update, Load) with its unsigned arithmetic kept   *)
(* at a reduced width, so that wrap-around and the signed conversion of    *)
(* the step check are reachable.                                           *)
(***************************************************************************)
EXTENDS Integers, Sequences, FiniteSets, TLC

\* ------------------------------------------------------------------------
\* Bounds of the model
\* ------------------------------------------------------------------------

\* Width in bits of the modelled unsigned integers (uint64 in the source).
W == 3

\* How many configuration calls (Init or Load) one behaviour may make.
MaxConfigCalls == 2

\* Number of threads that share one AtomicSequence.
NumThreads == 2

\* How many Next calls each thread makes.
MaxCallsPerThread == 1

\* ------------------------------------------------------------------------
\* Unsigned and signed arithmetic at width W
\* ------------------------------------------------------------------------

Modulus == 2 ^ W

Half == Modulus \div 2

Uint == 0 .. (Modulus - 1)

\* Lower limit of a sequence's range.
MinimumBound == 1

\* Upper limit of a sequence's range: ^uint64(0) - 1.
MaximumBound == (Modulus - 1) - 1

\* uint64 addition (atomic.AddUint64 wraps).
AddU(a, b) == (a + b) % Modulus

\* uint64 subtraction.
SubU(a, b) == ((a - b) + Modulus) % Modulus

\* int(x) for an unsigned x: the two's complement reading of the same bits.
ToInt(x) == IF x >= Half THEN x - Modulus ELSE x

\* Signed subtraction as Go computes it: the result wraps into the int range.
SubInt(i, j) == (((i - j) + Half + 2 * Modulus) % Modulus) - Half

\* ------------------------------------------------------------------------
\* Errors (the kind of each errors.New in the source)
\* ------------------------------------------------------------------------

NoError == "nil"

ErrAlreadyInitialized == "AlreadyInitialized"

ErrInvalidBounds == "InvalidBounds"

ErrInvalidStep == "InvalidStep"

ErrTooManyArguments == "TooManyArguments"

ErrBelowMinimum == "BelowMinimum"

ErrAboveMaximum == "AboveMaximum"

ErrNotInitialized == "NotInitialized"

ErrNonMonotonic == "NonMonotonic"

ErrMalformedState == "MalformedState"

ErrNotStarted == "NotStarted"

\* ------------------------------------------------------------------------
\* State
\* ------------------------------------------------------------------------

VARIABLES
    current,      \* AtomicSequence.current
    increment,    \* AtomicSequence.increment
    minvalue,     \* AtomicSequence.minvalue
    maxvalue,     \* AtomicSequence.maxvalue
    initialized,  \* AtomicSequence.initialized
    op,           \* the last call that returned
    ret,          \* the value it returned
    err,          \* the error it returned
    arg,          \* the value given to that call when it was an Update, else 0
    prev,         \* the call made before that call when it was a Next, else "none"
    nconfig,      \* number of Init and Load calls made so far
    via,          \* the call that set initialized: "none", "Init" or "Load"
    nnext,        \* Next calls since the successful Init, -1 once another call intervened
    exhausted,    \* a Next failed with AboveMaximum and only Next was called since
    params,       \* the argument list given to Init on a new instance
    pc,           \* per thread: the position of its Next call, "idle" between calls
    reg,          \* per thread: the value its last atomic load returned
    ncalls,       \* per thread: the number of Next calls it has started
    cnt,          \* per value: how many concurrent Next calls returned it without error
    done,         \* the number of concurrent Next calls that have returned
    data,         \* the decoded record given to Load on a new instance
    out,          \* the bytes the last Dump returned, <<>> for nil
    seq,          \* the fields of a Sequence given the same calls
    sop,          \* the last call the Sequence received
    sret,         \* the value that call returned
    serr,         \* the error it returned, NoError for a call that returns none
    snext,        \* Next calls of the Sequence since its Init, -1 once another call intervened
    high,         \* the highest value a recorded Next returned without error, -1 if none
    loc,          \* per thread: the local values of its call, <<>> between calls
    text,         \* the words and numbers of the string the last String call returned
    restored      \* the fields of the instance the dumped bytes were loaded into

fields == <<current, increment, minvalue, maxvalue, initialized>>

config == <<increment, minvalue, maxvalue, initialized>>

ghost == <<op, ret, err, arg, prev, nconfig, via, nnext, exhausted>>

conc == <<pc, reg, ncalls, cnt, done>>

codec == <<data, out, restored>>

plain == <<seq, sop, sret, serr, snext>>

aux == <<high, loc, text>>

vars == <<current, increment, minvalue, maxvalue, initialized,
          op, ret, err, arg, prev, nconfig, via, nnext, exhausted, params,
          pc, reg, ncalls, cnt, done, data, out, restored,
          seq, sop, sret, serr, snext, high, loc, text>>

\* ------------------------------------------------------------------------
\* Inputs
\* ------------------------------------------------------------------------

\* Argument values of the calls of a caller: the small values, the first
\* value that reads as negative after the least one, and the top of the range.
ArgVals == {0, 1, 2, Half + 1, Modulus - 1}

\* Values of the extra arguments of a call with too many arguments.
ExtraVals == {1, 2}

ArgListsOver(S) ==
    {<<>>}
        \cup {<<a>> : a \in S}
        \cup {<<a, b>> : a \in S, b \in S}
        \cup {<<a, b, c>> : a \in S, b \in S, c \in S}
        \cup {<<a, b, c, d>> : a \in ExtraVals, b \in ExtraVals, c \in ExtraVals, d \in ExtraVals}

ArgLists == ArgListsOver(ArgVals)

AllArgLists == ArgListsOver(Uint)

\* ------------------------------------------------------------------------
\* Init
\* ------------------------------------------------------------------------

\* A guard that lets an initialized sequence be initialized again.
ReinitIgnored(init) == FALSE

\* The guard of Init against a second initialization.
Reinit(init) == init

\* Argument checks that forget the upper limit of a three argument range.
ArgErrorNoUpperLimit(a) ==
    IF Len(a) = 1 THEN
        IF a[1] < MinimumBound THEN ErrInvalidBounds ELSE NoError
    ELSE IF Len(a) = 2 THEN
        IF a[2] < a[1] THEN ErrInvalidBounds
        ELSE IF a[1] < MinimumBound \/ a[2] > MaximumBound THEN ErrInvalidBounds
        ELSE NoError
    ELSE IF Len(a) = 3 THEN
        IF a[3] = 0 THEN ErrInvalidStep
        ELSE IF a[2] < a[1] THEN ErrInvalidBounds
        ELSE IF a[1] < MinimumBound THEN ErrInvalidBounds
        ELSE NoError
    ELSE IF Len(a) > 3 THEN ErrTooManyArguments
    ELSE NoError

\* The argument checks of Init, by argument count.
ArgError(a) ==
    IF Len(a) = 1 THEN
        IF a[1] < MinimumBound THEN ErrInvalidBounds ELSE NoError
    ELSE IF Len(a) = 2 THEN
        IF a[2] < a[1] THEN ErrInvalidBounds
        ELSE IF a[1] < MinimumBound \/ a[2] > MaximumBound THEN ErrInvalidBounds
        ELSE NoError
    ELSE IF Len(a) = 3 THEN
        IF a[3] = 0 THEN ErrInvalidStep
        ELSE IF a[2] < a[1] THEN ErrInvalidBounds
        ELSE IF a[1] < MinimumBound \/ a[2] > MaximumBound THEN ErrInvalidBounds
        ELSE NoError
    ELSE IF Len(a) > 3 THEN ErrTooManyArguments
    ELSE NoError

\* What Init adds to increment, by argument count.
ArgIncrement(a) ==
    IF Len(a) = 3 THEN a[3] ELSE IF Len(a) > 3 THEN 0 ELSE 1

\* A minimum that ignores the first argument of a two argument range.
ArgMinvalueDefaultRange(a) ==
    IF Len(a) = 3 THEN a[1] ELSE IF Len(a) > 3 THEN 0 ELSE MinimumBound

\* What Init adds to minvalue, by argument count.
ArgMinvalue(a) ==
    IF Len(a) \in {2, 3} THEN a[1] ELSE IF Len(a) > 3 THEN 0 ELSE MinimumBound

\* What Init adds to maxvalue, by argument count.
ArgMaxvalue(a) ==
    IF Len(a) = 0 THEN MaximumBound
    ELSE IF Len(a) = 1 THEN a[1]
    ELSE IF Len(a) \in {2, 3} THEN a[2]
    ELSE 0

\* A step check that accepts every minimum and step.
StepNeverUnderflows(min, inc) == FALSE

\* The check "int(minvalue) - int(increment) < 0" of Init and Restart.
StepUnderflows(min, inc) == SubInt(ToInt(min), ToInt(inc)) < 0

\* A start position on the minimum itself instead of one step before it.
InitCurrentAtMinimum(min, inc) == min

\* The position before the first value: minvalue - increment.
InitCurrent(min, inc) == SubU(min, inc)

\* s.Init(a...)
InitCall(a) ==
    /\ nconfig < MaxConfigCalls
    /\ nconfig' = nconfig + 1
    /\ op' = "Init"
    /\ ret' = 0
    /\ arg' = 0
    /\ prev' = "none"
    /\ exhausted' = FALSE
    /\ UNCHANGED <<params, codec, plain, aux, conc>>
    /\ IF Reinit(initialized) THEN
           /\ err' = ErrAlreadyInitialized
           /\ nnext' = -1
           /\ UNCHANGED <<fields, via>>
       ELSE IF ArgError(a) # NoError THEN
           /\ err' = ArgError(a)
           /\ nnext' = -1
           /\ UNCHANGED <<fields, via>>
       ELSE
           LET inc == AddU(increment, ArgIncrement(a))
               min == AddU(minvalue, ArgMinvalue(a))
               max == AddU(maxvalue, ArgMaxvalue(a))
           IN  /\ increment' = inc
               /\ minvalue' = min
               /\ maxvalue' = max
               /\ IF StepUnderflows(min, inc) THEN
                      /\ err' = ErrInvalidStep
                      /\ nnext' = -1
                      /\ UNCHANGED <<current, initialized, via>>
                  ELSE
                      /\ current' = InitCurrent(min, inc)
                      /\ initialized' = TRUE
                      /\ err' = NoError
                      /\ via' = "Init"
                      /\ nnext' = 0

\* ------------------------------------------------------------------------
\* Next
\* ------------------------------------------------------------------------

\* An add that is applied twice.
NextValueTwice(cur, inc) == AddU(AddU(cur, inc), inc)

\* The value of current after the atomic add of Next.
NextValue(cur, inc) == AddU(cur, inc)

\* The bound checks of Next on the value of current it loads.
NextError(cur, min, max) ==
    IF cur < min THEN ErrBelowMinimum
    ELSE IF cur > max THEN ErrAboveMaximum
    ELSE NoError

\* A Next that returns the out of range value together with the error.
NextReturnRaw(cur, min, max) == cur

\* The value Next returns.
NextReturn(cur, min, max) ==
    IF NextError(cur, min, max) = NoError THEN cur ELSE 0

\* The cap of the ghost counter nnext.
NextCap == Modulus + 1

\* s.Next() by a single caller who then holds h as the highest value
\* returned so far
NextRecording(h) ==
    LET cur == NextValue(current, increment)
    IN  /\ current' = cur
        /\ err' = NextError(cur, minvalue, maxvalue)
        /\ ret' = NextReturn(cur, minvalue, maxvalue)
        /\ op' = "Next"
        /\ arg' = 0
        /\ prev' = op
        /\ nnext' = IF nnext < 0 THEN -1
                    ELSE IF nnext < NextCap THEN nnext + 1 ELSE NextCap
        /\ exhausted' = (exhausted \/ NextError(cur, minvalue, maxvalue) = ErrAboveMaximum)
        /\ high' = h
        /\ UNCHANGED <<config, nconfig, via, params, codec, plain, loc, text, conc>>

\* s.Next() by a single caller who keeps no record of the values
NextCall == NextRecording(high)

\* s.Next() by a single caller who records the highest value that an
\* initialized instance returned without error
NextRecorded ==
    NextRecording(IF initialized /\ err' = NoError /\ ret' > high THEN ret' ELSE high)

\* ------------------------------------------------------------------------
\* Restart
\* ------------------------------------------------------------------------

\* s.Restart()
RestartCall ==
    /\ op' = "Restart"
    /\ ret' = 0
    /\ arg' = 0
    /\ prev' = "none"
    /\ nnext' = -1
    /\ exhausted' = FALSE
    /\ IF ~initialized THEN
           /\ err' = ErrNotInitialized
           /\ UNCHANGED current
       ELSE IF StepUnderflows(minvalue, increment) THEN
           /\ err' = ErrInvalidStep
           /\ UNCHANGED current
       ELSE
           /\ err' = NoError
           /\ current' = InitCurrent(minvalue, increment)
    /\ UNCHANGED <<config, nconfig, via, params, codec, plain, aux, conc>>

\* ------------------------------------------------------------------------
\* Update
\* ------------------------------------------------------------------------

\* A monotonicity check that also rejects the value current already has.
UpdateErrorStrict(val, cur, inc) ==
    IF inc > 0 /\ val <= cur THEN ErrNonMonotonic
    ELSE IF inc < 0 /\ val > cur THEN ErrNonMonotonic
    ELSE NoError

\* The monotonicity check of Update.
UpdateError(val, cur, inc) ==
    IF inc > 0 /\ val < cur THEN ErrNonMonotonic
    ELSE IF inc < 0 /\ val > cur THEN ErrNonMonotonic
    ELSE NoError

\* s.Update(val)
UpdateCall(val) ==
    /\ op' = "Update"
    /\ ret' = 0
    /\ arg' = val
    /\ prev' = "none"
    /\ nnext' = -1
    /\ exhausted' = FALSE
    /\ err' = UpdateError(val, current, increment)
    /\ current' = IF UpdateError(val, current, increment) = NoError THEN val ELSE current
    /\ UNCHANGED <<config, nconfig, via, params, codec, plain, aux, conc>>

\* ------------------------------------------------------------------------
\* IsStarted and Current
\* ------------------------------------------------------------------------

\* An IsStarted that counts the maximum itself as started.
IsStartedInclusive(init, cur, min, max) ==
    IF ~init THEN FALSE ELSE (~(cur < min)) /\ cur <= max

\* s.IsStarted() on an instance with these fields.
IsStarted(init, cur, min, max) ==
    IF ~init THEN FALSE ELSE (~(cur < min)) /\ cur < max

\* A Current that does not look at IsStarted.
CurrentErrorNoStartCheck(init, started) ==
    IF ~init THEN ErrNotInitialized ELSE NoError

\* The two checks of Current.
CurrentError(init, started) ==
    IF ~init THEN ErrNotInitialized
    ELSE IF ~started THEN ErrNotStarted
    ELSE NoError

\* s.Current()
CurrentCall ==
    LET e == CurrentError(initialized, IsStarted(initialized, current, minvalue, maxvalue))
    IN  /\ op' = "Current"
        /\ err' = e
        /\ ret' = IF e = NoError THEN current ELSE 0
        /\ arg' = 0
        /\ prev' = "none"
        /\ nnext' = -1
        /\ exhausted' = FALSE
        /\ UNCHANGED <<fields, nconfig, via, params, conc, codec, plain, aux>>

\* ------------------------------------------------------------------------
\* Load
\* ------------------------------------------------------------------------

\* The keys of a dumped state, in the order Load reads them.
Keys == {"current", "increment", "minvalue", "maxvalue"}

\* Values of the keys of a record given to Load.
LoadVals == {0, 2}

\* Input that json.Unmarshal rejects.
Garbage == [malformed |-> TRUE]

\* The decoded inputs of Load: a map with any subset of the keys.
Records == UNION {[K -> LoadVals] : K \in SUBSET Keys}

LoadInputs == Records \cup {Garbage}

\* How many of the four keys Load stores before it returns.
Stored(d) ==
    IF "current" \notin DOMAIN d THEN 0
    ELSE IF "increment" \notin DOMAIN d THEN 1
    ELSE IF "minvalue" \notin DOMAIN d THEN 2
    ELSE IF "maxvalue" \notin DOMAIN d THEN 3
    ELSE 4

\* A Load that does not look at the initialized flag.
ReloadIgnored(init) == FALSE

\* The guard "if s.initialized" of Load.
Reload(init) == init

\* A Load that rejects a record with a step of zero.
LoadErrorStepChecked(init, d) ==
    IF Reload(init) THEN ErrAlreadyInitialized
    ELSE IF d = Garbage THEN ErrMalformedState
    ELSE IF Stored(d) < 4 THEN ErrMalformedState
    ELSE IF d["increment"] = 0 THEN ErrMalformedState
    ELSE NoError

\* The error Load returns for the decoded input d.
LoadError(init, d) ==
    IF Reload(init) THEN ErrAlreadyInitialized
    ELSE IF d = Garbage THEN ErrMalformedState
    ELSE IF Stored(d) < 4 THEN ErrMalformedState
    ELSE NoError

\* How many of the four fields Load overwrites.
LoadStores(init, d) ==
    IF Reload(init) \/ d = Garbage THEN 0 ELSE Stored(d)

\* new(AtomicSequence)
NewInstance ==
    [current |-> 0, increment |-> 0, minvalue |-> 0, maxvalue |-> 0,
     initialized |-> FALSE]

\* A Load that clears initialized whenever it does not store all four keys.
LoadIntoResetting(s, d) ==
    LET n == LoadStores(s.initialized, d)
    IN  [current     |-> IF n >= 1 THEN d["current"] ELSE s.current,
         increment   |-> IF n >= 2 THEN d["increment"] ELSE s.increment,
         minvalue    |-> IF n >= 3 THEN d["minvalue"] ELSE s.minvalue,
         maxvalue    |-> IF n >= 4 THEN d["maxvalue"] ELSE s.maxvalue,
         initialized |-> n = 4]

\* The fields of the instance s after s.Load of the decoded input d.
LoadInto(s, d) ==
    LET n == LoadStores(s.initialized, d)
    IN  [current     |-> IF n >= 1 THEN d["current"] ELSE s.current,
         increment   |-> IF n >= 2 THEN d["increment"] ELSE s.increment,
         minvalue    |-> IF n >= 3 THEN d["minvalue"] ELSE s.minvalue,
         maxvalue    |-> IF n >= 4 THEN d["maxvalue"] ELSE s.maxvalue,
         initialized |-> IF n = 4 THEN TRUE ELSE s.initialized]

\* The fields of the instance the single caller uses.
Self ==
    [current |-> current, increment |-> increment, minvalue |-> minvalue,
     maxvalue |-> maxvalue, initialized |-> initialized]

\* s.Load(data)
LoadCall(d) ==
    /\ nconfig < MaxConfigCalls
    /\ nconfig' = nconfig + 1
    /\ op' = "Load"
    /\ arg' = 0
    /\ prev' = "none"
    /\ ret' = 0
    /\ nnext' = -1
    /\ exhausted' = FALSE
    /\ UNCHANGED <<params, codec, plain, aux, conc>>
    /\ LET s == LoadInto(Self, d)
           e == LoadError(initialized, d)
       IN  /\ current' = s.current
           /\ increment' = s.increment
           /\ minvalue' = s.minvalue
           /\ maxvalue' = s.maxvalue
           /\ initialized' = s.initialized
           /\ err' = e
           /\ via' = IF e = NoError THEN "Load" ELSE via

\* ------------------------------------------------------------------------
\* Dump, and the JSON text between Dump and Load
\* ------------------------------------------------------------------------

\* The base in which a JSON number is written.
Radix == 10

\* The decimal digits of n, most significant first, as json.Marshal writes
\* a uint64.
RECURSIVE Digits(_)
Digits(n) ==
    IF n < Radix THEN <<n>> ELSE Append(Digits(n \div Radix), n % Radix)

\* The number that a sequence of decimal digits denotes.
RECURSIVE Number(_)
Number(ds) ==
    IF Len(ds) = 0 THEN 0
    ELSE Radix * Number(SubSeq(ds, 1, Len(ds) - 1)) + ds[Len(ds)]

\* The keys of the map in the order json.Marshal writes them.
SortedKeys == <<"current", "increment", "maxvalue", "minvalue">>

\* A Marshal that writes the maximum under both bound keys.
MarshalMaxTwice(m) ==
    [i \in 1 .. Len(SortedKeys) |->
        <<SortedKeys[i],
          Digits(m[IF SortedKeys[i] = "minvalue" THEN "maxvalue" ELSE SortedKeys[i]])>>]

\* json.Marshal of a map[string]uint64: the members in key order, each
\* value in decimal.
Marshal(m) ==
    [i \in 1 .. Len(SortedKeys) |-> <<SortedKeys[i], Digits(m[SortedKeys[i]])>>]

\* json.Unmarshal into a map[string]uint64: nil input and a number that
\* does not fit a uint64 are errors, a repeated key keeps its last value.
Unmarshal(bytes) ==
    IF bytes = <<>> THEN Garbage
    ELSE IF \E i \in DOMAIN bytes : Number(bytes[i][2]) >= Modulus THEN Garbage
    ELSE [k \in {bytes[i][1] : i \in DOMAIN bytes} |->
             LET last == CHOOSE i \in DOMAIN bytes :
                             /\ bytes[i][1] = k
                             /\ \A j \in DOMAIN bytes : bytes[j][1] = k => j <= i
             IN  Number(bytes[last][2])]

\* s.Dump()
DumpCall ==
    /\ op' = "Dump"
    /\ ret' = 0
    /\ arg' = 0
    /\ prev' = "none"
    /\ nnext' = -1
    /\ exhausted' = FALSE
    /\ IF ~IsStarted(initialized, current, minvalue, maxvalue) THEN
           /\ err' = ErrNotStarted
           /\ out' = <<>>
       ELSE
           /\ err' = NoError
           /\ out' = Marshal([k \in Keys |-> Self[k]])
    /\ UNCHANGED <<fields, nconfig, via, params, conc, plain, aux, data, restored>>

\* restored := new(AtomicSequence); restored.Load(out), with out the bytes of the last Dump
LoadDumpedCall ==
    /\ op' = "LoadDumped"
    /\ ret' = 0
    /\ arg' = 0
    /\ prev' = "none"
    /\ nnext' = -1
    /\ exhausted' = FALSE
    /\ err' = LoadError(NewInstance.initialized, Unmarshal(out))
    /\ restored' = LoadInto(NewInstance, Unmarshal(out))
    /\ UNCHANGED <<fields, nconfig, via, params, conc, plain, aux, data, out>>

\* ------------------------------------------------------------------------
\* IsStarted and String as calls of their own
\* ------------------------------------------------------------------------

\* s.IsStarted(); the boolean it returns is recorded as 1 or 0
IsStartedCall ==
    /\ op' = "IsStarted"
    /\ err' = NoError
    /\ ret' = IF IsStarted(initialized, current, minvalue, maxvalue) THEN 1 ELSE 0
    /\ arg' = 0
    /\ prev' = "none"
    /\ nnext' = -1
    /\ exhausted' = FALSE
    /\ UNCHANGED <<fields, nconfig, via, params, conc, codec, plain, aux>>

\* The description "incremented by %d between %d and %d" of String.
Description == <<"incremented by", Digits(increment), "between", Digits(minvalue),
                 "and", Digits(maxvalue)>>

\* s.String()
StringCall ==
    /\ op' = "String"
    /\ err' = NoError
    /\ ret' = 0
    /\ arg' = 0
    /\ prev' = "none"
    /\ nnext' = -1
    /\ exhausted' = FALSE
    /\ text' = IF ~IsStarted(initialized, current, minvalue, maxvalue)
               THEN <<"Unstarted Sequence">> \o Description
               ELSE <<"Sequence at", Digits(current)>> \o Description
    /\ UNCHANGED <<fields, nconfig, via, params, conc, codec, plain, high, loc>>

\* ------------------------------------------------------------------------
\* Sequence, the implementation without atomic operations
\* ------------------------------------------------------------------------

\* The default maximum of a Sequence.
maxuint64 == (Modulus - 1) - 1

\* The errors of a Sequence.
ErrSeqBelowMinimum == "Could not reach minimum from current with increment."

ErrSeqAboveMaximum == "Reached maximum bound of sequence."

ErrSeqUnstarted == "Sequence is unstarted"

\* The fields after s.Init(params...): the parameters are current,
\* increment, minvalue and maxvalue in this order.
SeqInit(a) ==
    [current   |-> IF Len(a) > 0 THEN a[1] ELSE 0,
     increment |-> IF Len(a) > 1 THEN a[2] ELSE 1,
     minvalue  |-> IF Len(a) > 2 THEN a[3] ELSE 1,
     maxvalue  |-> IF Len(a) > 3 THEN a[4] ELSE maxuint64]

\* s.Init(params...) of a Sequence
SeqInitCall(a) ==
    /\ seq' = SeqInit(a)
    /\ sop' = "Init"
    /\ sret' = 0
    /\ serr' = NoError
    /\ snext' = 0
    /\ UNCHANGED <<fields, ghost, params, conc, codec, aux>>

\* The checks of Next of a Sequence on the advanced current.
SeqNextError(cur, min, max) ==
    IF cur < min THEN ErrSeqBelowMinimum
    ELSE IF cur > max THEN ErrSeqAboveMaximum
    ELSE NoError

\* s.Next() of a Sequence
SeqNextCall ==
    LET cur == (seq.current + seq.increment) % Modulus
        e == SeqNextError(cur, seq.minvalue, seq.maxvalue)
    IN  /\ seq' = [seq EXCEPT !.current = cur]
        /\ sop' = "Next"
        /\ serr' = e
        /\ sret' = IF e = NoError THEN cur ELSE 0
        /\ snext' = IF snext < 0 THEN -1
                    ELSE IF snext < NextCap THEN snext + 1 ELSE NextCap
        /\ UNCHANGED <<fields, ghost, params, conc, codec, aux>>

\* s.Restart() of a Sequence
SeqRestartCall ==
    /\ seq' = [seq EXCEPT !.current = (seq.minvalue - seq.increment) % Modulus]
    /\ sop' = "Restart"
    /\ sret' = 0
    /\ serr' = NoError
    /\ snext' = -1
    /\ UNCHANGED <<fields, ghost, params, conc, codec, aux>>

\* s.IsStarted() of a Sequence
SeqIsStarted(s) == (~(s.current < s.minvalue)) /\ s.current < s.maxvalue

\* s.Current() of a Sequence
SeqCurrentCall ==
    /\ sop' = "Current"
    /\ serr' = IF ~SeqIsStarted(seq) THEN ErrSeqUnstarted ELSE NoError
    /\ sret' = IF ~SeqIsStarted(seq) THEN 0 ELSE seq.current
    /\ snext' = -1
    /\ UNCHANGED <<seq, fields, ghost, params, conc, codec, aux>>

\* ------------------------------------------------------------------------
\* Next, one atomic operation at a time, by concurrent threads
\* ------------------------------------------------------------------------

Threads == 1 .. NumThreads

\* A thread enters Next and loads increment, the operand of the add.
NextLoadIncrement(t) ==
    /\ pc[t] = "idle"
    /\ ncalls[t] < MaxCallsPerThread
    /\ ncalls' = [ncalls EXCEPT ![t] = @ + 1]
    /\ reg' = [reg EXCEPT ![t] = increment]
    /\ pc' = [pc EXCEPT ![t] = "add"]
    /\ UNCHANGED <<fields, ghost, params, codec, plain, aux, cnt, done>>

\* atomic.AddUint64(&s.current, ...)
NextAdd(t) ==
    /\ pc[t] = "add"
    /\ current' = NextValue(current, reg[t])
    /\ pc' = [pc EXCEPT ![t] = "loadmin"]
    /\ UNCHANGED <<config, ghost, params, codec, plain, aux, reg, ncalls, cnt, done>>

\* The load of current for the minimum check.
NextLoadForMin(t) ==
    /\ pc[t] = "loadmin"
    /\ reg' = [reg EXCEPT ![t] = current]
    /\ pc' = [pc EXCEPT ![t] = "cmpmin"]
    /\ UNCHANGED <<fields, ghost, params, codec, plain, aux, ncalls, cnt, done>>

\* The load of minvalue and the comparison: below it, Next returns 0 and an error.
NextCompareMin(t) ==
    /\ pc[t] = "cmpmin"
    /\ IF reg[t] < minvalue THEN
           /\ pc' = [pc EXCEPT ![t] = "idle"]
           /\ done' = done + 1
       ELSE
           /\ pc' = [pc EXCEPT ![t] = "loadmax"]
           /\ UNCHANGED done
    /\ UNCHANGED <<fields, ghost, params, codec, plain, aux, reg, ncalls, cnt>>

\* The load of current for the maximum check.
NextLoadForMax(t) ==
    /\ pc[t] = "loadmax"
    /\ reg' = [reg EXCEPT ![t] = current]
    /\ pc' = [pc EXCEPT ![t] = "cmpmax"]
    /\ UNCHANGED <<fields, ghost, params, codec, plain, aux, ncalls, cnt, done>>

\* The load of maxvalue and the comparison: above it, Next returns 0 and an error.
NextCompareMax(t) ==
    /\ pc[t] = "cmpmax"
    /\ IF reg[t] > maxvalue THEN
           /\ pc' = [pc EXCEPT ![t] = "idle"]
           /\ done' = done + 1
       ELSE
           /\ pc' = [pc EXCEPT ![t] = "return"]
           /\ UNCHANGED done
    /\ UNCHANGED <<fields, ghost, params, codec, plain, aux, reg, ncalls, cnt>>

\* return atomic.LoadUint64(&s.current), nil
NextReturnLoad(t) ==
    /\ pc[t] = "return"
    /\ reg' = [reg EXCEPT ![t] = current]
    /\ cnt' = [cnt EXCEPT ![current] = @ + 1]
    /\ done' = done + 1
    /\ pc' = [pc EXCEPT ![t] = "idle"]
    /\ UNCHANGED <<fields, ghost, params, codec, plain, aux, ncalls>>

\* ------------------------------------------------------------------------
\* The other operations, one memory access at a time
\* ------------------------------------------------------------------------

\* Thread t calls an operation.
Enter(t) ==
    /\ pc[t] = "idle"
    /\ ncalls[t] < MaxCallsPerThread
    /\ ncalls' = [ncalls EXCEPT ![t] = @ + 1]

\* Thread t is at the statement l of its call.
At(t, l) ==
    /\ pc[t] = l
    /\ UNCHANGED ncalls

\* Thread t goes on to the statement l with r the value it loaded last and
\* d its local values; "idle" is the return, which drops the local values.
Jump(t, l, r, d) ==
    /\ pc' = [pc EXCEPT ![t] = l]
    /\ reg' = [reg EXCEPT ![t] = r]
    /\ loc' = [loc EXCEPT ![t] = IF l = "idle" THEN <<>> ELSE d]
    /\ done' = IF l = "idle" THEN done + 1 ELSE done

\* What a memory access of a thread leaves alone besides the fields.
ThreadFrame == UNCHANGED <<ghost, params, codec, plain, high, text, cnt>>

\* Init: the plain read of initialized and the checks of the arguments.
InitReadInitialized(t) ==
    /\ Enter(t)
    /\ Jump(t, IF Reinit(initialized) \/ ArgError(params) # NoError
               THEN "idle" ELSE "Init:increment", 0, <<>>)
    /\ UNCHANGED fields
    /\ ThreadFrame

\* atomic.AddUint64(&s.increment, ...)
InitAddIncrement(t) ==
    /\ At(t, "Init:increment")
    /\ increment' = AddU(increment, ArgIncrement(params))
    /\ Jump(t, "Init:minvalue", 0, <<>>)
    /\ UNCHANGED <<current, minvalue, maxvalue, initialized>>
    /\ ThreadFrame

\* atomic.AddUint64(&s.minvalue, ...)
InitAddMinvalue(t) ==
    /\ At(t, "Init:minvalue")
    /\ minvalue' = AddU(minvalue, ArgMinvalue(params))
    /\ Jump(t, "Init:maxvalue", 0, <<>>)
    /\ UNCHANGED <<current, increment, maxvalue, initialized>>
    /\ ThreadFrame

\* atomic.AddUint64(&s.maxvalue, ...)
InitAddMaxvalue(t) ==
    /\ At(t, "Init:maxvalue")
    /\ maxvalue' = AddU(maxvalue, ArgMaxvalue(params))
    /\ Jump(t, "Init:readmin", 0, <<>>)
    /\ UNCHANGED <<current, increment, minvalue, initialized>>
    /\ ThreadFrame

\* The plain read of minvalue in "int(s.minvalue)-int(s.increment) < 0".
InitReadMinvalue(t) ==
    /\ At(t, "Init:readmin")
    /\ Jump(t, "Init:step", minvalue, <<>>)
    /\ UNCHANGED fields
    /\ ThreadFrame

\* The plain read of increment and the step check.
InitCheckStep(t) ==
    /\ At(t, "Init:step")
    /\ Jump(t, IF StepUnderflows(reg[t], increment) THEN "idle" ELSE "Init:loadmin",
            increment, <<>>)
    /\ UNCHANGED fields
    /\ ThreadFrame

\* atomic.LoadUint64(&s.minvalue), the first operand of the start position
InitLoadMinvalue(t) ==
    /\ At(t, "Init:loadmin")
    /\ Jump(t, "Init:loadinc", minvalue, <<>>)
    /\ UNCHANGED fields
    /\ ThreadFrame

\* atomic.LoadUint64(&s.increment) and the subtraction
InitLoadIncrement(t) ==
    /\ At(t, "Init:loadinc")
    /\ Jump(t, "Init:swap", increment, <<InitCurrent(reg[t], increment)>>)
    /\ UNCHANGED fields
    /\ ThreadFrame

\* atomic.SwapUint64(&s.current, ...)
InitSwap(t) ==
    /\ At(t, "Init:swap")
    /\ current' = loc[t][1]
    /\ Jump(t, "Init:set", reg[t], <<>>)
    /\ UNCHANGED config
    /\ ThreadFrame

\* s.initialized = true; return nil
InitSetInitialized(t) ==
    /\ At(t, "Init:set")
    /\ initialized' = TRUE
    /\ Jump(t, "idle", 0, <<>>)
    /\ UNCHANGED <<current, increment, minvalue, maxvalue>>
    /\ ThreadFrame

InitStep(t) ==
    \/ InitReadInitialized(t)
    \/ InitAddIncrement(t)
    \/ InitAddMinvalue(t)
    \/ InitAddMaxvalue(t)
    \/ InitReadMinvalue(t)
    \/ InitCheckStep(t)
    \/ InitLoadMinvalue(t)
    \/ InitLoadIncrement(t)
    \/ InitSwap(t)
    \/ InitSetInitialized(t)

\* Restart: the plain read of initialized.
RestartReadInitialized(t) ==
    /\ Enter(t)
    /\ Jump(t, IF ~initialized THEN "idle" ELSE "Restart:min", 0, <<>>)
    /\ UNCHANGED fields
    /\ ThreadFrame

\* atomic.LoadUint64(&s.minvalue) of the step check
RestartLoadMinvalue(t) ==
    /\ At(t, "Restart:min")
    /\ Jump(t, "Restart:step", minvalue, <<>>)
    /\ UNCHANGED fields
    /\ ThreadFrame

\* atomic.LoadUint64(&s.increment) and the step check
RestartCheckStep(t) ==
    /\ At(t, "Restart:step")
    /\ Jump(t, IF StepUnderflows(reg[t], increment) THEN "idle" ELSE "Restart:loadmin",
            increment, <<>>)
    /\ UNCHANGED fields
    /\ ThreadFrame

\* atomic.LoadUint64(&s.minvalue), the first operand of the start position
RestartLoadMinvalueAgain(t) ==
    /\ At(t, "Restart:loadmin")
    /\ Jump(t, "Restart:loadinc", minvalue, <<>>)
    /\ UNCHANGED fields
    /\ ThreadFrame

\* atomic.LoadUint64(&s.increment) and the subtraction
RestartLoadIncrement(t) ==
    /\ At(t, "Restart:loadinc")
    /\ Jump(t, "Restart:swap", increment, <<InitCurrent(reg[t], increment)>>)
    /\ UNCHANGED fields
    /\ ThreadFrame

\* atomic.SwapUint64(&s.current, ...); return nil
RestartSwap(t) ==
    /\ At(t, "Restart:swap")
    /\ current' = loc[t][1]
    /\ Jump(t, "idle", 0, <<>>)
    /\ UNCHANGED config
    /\ ThreadFrame

RestartStep(t) ==
    \/ RestartReadInitialized(t)
    \/ RestartLoadMinvalue(t)
    \/ RestartCheckStep(t)
    \/ RestartLoadMinvalueAgain(t)
    \/ RestartLoadIncrement(t)
    \/ RestartSwap(t)

\* An Update that tries its comparison again until it passes.
UpdateRetriesCompare(val, cur) == IF val < cur THEN "Update:current" ELSE "Update:increment"

\* Where Update goes after "val < current": to the return of the error or on.
UpdateAfterCompare(val, cur) == IF val < cur THEN "idle" ELSE "Update:increment"

\* A thread enters Update(val) and loads increment for "increment > 0";
\* when that is false the load of current is skipped.
UpdateLoadIncrement(t, val) ==
    /\ Enter(t)
    /\ Jump(t, IF increment > 0 THEN "Update:current" ELSE "Update:increment",
            increment, <<val>>)
    /\ UNCHANGED fields
    /\ ThreadFrame

\* The load of current and the comparison: with val below it, Update
\* returns the error.
UpdateLoadCurrent(t) ==
    /\ At(t, "Update:current")
    /\ Jump(t, UpdateAfterCompare(loc[t][1], current), current, loc[t])
    /\ UNCHANGED fields
    /\ ThreadFrame

\* The load of increment for "increment < 0", which is false for a uint64.
UpdateLoadIncrementAgain(t) ==
    /\ At(t, "Update:increment")
    /\ Jump(t, "Update:swap", increment, loc[t])
    /\ UNCHANGED fields
    /\ ThreadFrame

\* atomic.SwapUint64(&s.current, val); return nil
UpdateSwap(t) ==
    /\ At(t, "Update:swap")
    /\ current' = loc[t][1]
    /\ Jump(t, "idle", 0, <<>>)
    /\ UNCHANGED config
    /\ ThreadFrame

UpdateStep(t) ==
    \/ \E val \in ArgVals : UpdateLoadIncrement(t, val)
    \/ UpdateLoadCurrent(t)
    \/ UpdateLoadIncrementAgain(t)
    \/ UpdateSwap(t)

\* The operations that call IsStarted, and IsStarted called by itself.
StartedCallers == {"IsStarted", "Current", "Dump"}

\* Where the caller k of IsStarted goes with the result b: IsStarted
\* returns it, Current and Dump return their error on FALSE.
AfterIsStarted(k, b) ==
    IF k = "IsStarted" \/ ~b THEN "idle" ELSE k \o ":load"

\* IsStarted: the plain read of initialized; Current calls IsStarted after
\* its own read, Dump and a direct call start with it.
StartedReadInitialized(t, k) ==
    /\ IF k = "Current" THEN At(t, "Current:started") ELSE Enter(t)
    /\ Jump(t, IF ~initialized THEN AfterIsStarted(k, FALSE) ELSE k \o ":current", 0, <<>>)
    /\ UNCHANGED fields
    /\ ThreadFrame

\* atomic.LoadUint64(&s.current) of "current < minvalue"
StartedLoadCurrent(t, k) ==
    /\ At(t, k \o ":current")
    /\ Jump(t, k \o ":min", current, <<>>)
    /\ UNCHANGED fields
    /\ ThreadFrame

\* atomic.LoadUint64(&s.minvalue) and the comparison
StartedCompareMin(t, k) ==
    /\ At(t, k \o ":min")
    /\ Jump(t, IF reg[t] < minvalue THEN AfterIsStarted(k, FALSE) ELSE k \o ":again",
            minvalue, <<>>)
    /\ UNCHANGED fields
    /\ ThreadFrame

\* atomic.LoadUint64(&s.current) of "current < maxvalue"
StartedLoadCurrentAgain(t, k) ==
    /\ At(t, k \o ":again")
    /\ Jump(t, k \o ":max", current, <<>>)
    /\ UNCHANGED fields
    /\ ThreadFrame

\* atomic.LoadUint64(&s.maxvalue), the comparison and the result
StartedCompareMax(t, k) ==
    /\ At(t, k \o ":max")
    /\ Jump(t, AfterIsStarted(k, reg[t] < maxvalue), IF reg[t] < maxvalue THEN 1 ELSE 0, <<>>)
    /\ UNCHANGED fields
    /\ ThreadFrame

StartedStep(t, k) ==
    \/ StartedReadInitialized(t, k)
    \/ StartedLoadCurrent(t, k)
    \/ StartedCompareMin(t, k)
    \/ StartedLoadCurrentAgain(t, k)
    \/ StartedCompareMax(t, k)

\* Current: the plain read of initialized.
CurrentReadInitialized(t) ==
    /\ Enter(t)
    /\ Jump(t, IF ~initialized THEN "idle" ELSE "Current:started", 0, <<>>)
    /\ UNCHANGED fields
    /\ ThreadFrame

\* return atomic.LoadUint64(&s.current), nil
CurrentLoad(t) ==
    /\ At(t, "Current:load")
    /\ Jump(t, "idle", current, <<>>)
    /\ UNCHANGED fields
    /\ ThreadFrame

CurrentStep(t) ==
    \/ CurrentReadInitialized(t)
    \/ StartedStep(t, "Current")
    \/ CurrentLoad(t)

\* data["current"] = atomic.LoadUint64(&s.current)
DumpLoadCurrent(t) ==
    /\ At(t, "Dump:load")
    /\ Jump(t, "Dump:increment", current, <<current>>)
    /\ UNCHANGED fields
    /\ ThreadFrame

\* data["increment"] = atomic.LoadUint64(&s.increment)
DumpLoadIncrement(t) ==
    /\ At(t, "Dump:increment")
    /\ Jump(t, "Dump:minvalue", increment, Append(loc[t], increment))
    /\ UNCHANGED fields
    /\ ThreadFrame

\* data["minvalue"] = atomic.LoadUint64(&s.minvalue)
DumpLoadMinvalue(t) ==
    /\ At(t, "Dump:minvalue")
    /\ Jump(t, "Dump:maxvalue", minvalue, Append(loc[t], minvalue))
    /\ UNCHANGED fields
    /\ ThreadFrame

\* data["maxvalue"] = atomic.LoadUint64(&s.maxvalue); return json.Marshal(data)
DumpLoadMaxvalue(t) ==
    /\ At(t, "Dump:maxvalue")
    /\ Jump(t, "idle", maxvalue, <<>>)
    /\ out' = Marshal([current |-> loc[t][1], increment |-> loc[t][2],
                       minvalue |-> loc[t][3], maxvalue |-> maxvalue])
    /\ UNCHANGED <<fields, ghost, params, data, restored, plain, high, text, cnt>>

DumpStep(t) ==
    \/ StartedStep(t, "Dump")
    \/ DumpLoadCurrent(t)
    \/ DumpLoadIncrement(t)
    \/ DumpLoadMinvalue(t)
    \/ DumpLoadMaxvalue(t)

\* Load(data): the plain read of initialized and json.Unmarshal.
LoadReadInitialized(t) ==
    /\ Enter(t)
    /\ Jump(t, IF Reload(initialized) \/ data = Garbage THEN "idle" ELSE "Load:current",
            0, <<>>)
    /\ UNCHANGED fields
    /\ ThreadFrame

\* The key "current": missing, the return of the error, else
\* atomic.SwapUint64(&s.current, val).
LoadSwapCurrent(t) ==
    /\ At(t, "Load:current")
    /\ IF Stored(data) < 1 THEN
           /\ Jump(t, "idle", 0, <<>>)
           /\ UNCHANGED current
       ELSE
           /\ Jump(t, "Load:increment", 0, <<>>)
           /\ current' = data["current"]
    /\ UNCHANGED config
    /\ ThreadFrame

\* The key "increment" and atomic.SwapUint64(&s.increment, val)
LoadSwapIncrement(t) ==
    /\ At(t, "Load:increment")
    /\ IF Stored(data) < 2 THEN
           /\ Jump(t, "idle", 0, <<>>)
           /\ UNCHANGED increment
       ELSE
           /\ Jump(t, "Load:minvalue", 0, <<>>)
           /\ increment' = data["increment"]
    /\ UNCHANGED <<current, minvalue, maxvalue, initialized>>
    /\ ThreadFrame

\* The key "minvalue" and atomic.SwapUint64(&s.minvalue, val)
LoadSwapMinvalue(t) ==
    /\ At(t, "Load:minvalue")
    /\ IF Stored(data) < 3 THEN
           /\ Jump(t, "idle", 0, <<>>)
           /\ UNCHANGED minvalue
       ELSE
           /\ Jump(t, "Load:maxvalue", 0, <<>>)
           /\ minvalue' = data["minvalue"]
    /\ UNCHANGED <<current, increment, maxvalue, initialized>>
    /\ ThreadFrame

\* The key "maxvalue" and atomic.SwapUint64(&s.maxvalue, val)
LoadSwapMaxvalue(t) ==
    /\ At(t, "Load:maxvalue")
    /\ IF Stored(data) < 4 THEN
           /\ Jump(t, "idle", 0, <<>>)
           /\ UNCHANGED maxvalue
       ELSE
           /\ Jump(t, "Load:set", 0, <<>>)
           /\ maxvalue' = data["maxvalue"]
    /\ UNCHANGED <<current, increment, minvalue, initialized>>
    /\ ThreadFrame

\* s.initialized = true; return nil
LoadSetInitialized(t) ==
    /\ At(t, "Load:set")
    /\ initialized' = TRUE
    /\ Jump(t, "idle", 0, <<>>)
    /\ UNCHANGED <<current, increment, minvalue, maxvalue>>
    /\ ThreadFrame

LoadStep(t) ==
    \/ LoadReadInitialized(t)
    \/ LoadSwapCurrent(t)
    \/ LoadSwapIncrement(t)
    \/ LoadSwapMinvalue(t)
    \/ LoadSwapMaxvalue(t)
    \/ LoadSetInitialized(t)

\* Next, one atomic operation at a time.
NextStep(t) ==
    \/ NextLoadIncrement(t)
    \/ NextAdd(t)
    \/ NextLoadForMin(t)
    \/ NextCompareMin(t)
    \/ NextLoadForMax(t)
    \/ NextCompareMax(t)
    \/ NextReturnLoad(t)

\* ------------------------------------------------------------------------
\* Specifications
\* ------------------------------------------------------------------------

\* A zero-valued AtomicSequence.
ZeroValued ==
    /\ current = 0
    /\ increment = 0
    /\ minvalue = 0
    /\ maxvalue = 0
    /\ initialized = FALSE

NoCallYet ==
    /\ op = "none"
    /\ ret = 0
    /\ err = NoError
    /\ arg = 0
    /\ prev = "none"
    /\ nconfig = 0
    /\ via = "none"
    /\ nnext = -1
    /\ exhausted = FALSE

\* No thread has called Next.
NoThreadYet ==
    /\ pc = [t \in Threads |-> "idle"]
    /\ reg = [t \in Threads |-> 0]
    /\ ncalls = [t \in Threads |-> 0]
    /\ cnt = [v \in Uint |-> 0]
    /\ done = 0

\* Nothing was dumped and no second instance was loaded.
NoDumpYet ==
    /\ data = Garbage
    /\ out = <<>>
    /\ restored = NewInstance

\* new(Sequence)
NewSequence == [current |-> 0, increment |-> 0, minvalue |-> 0, maxvalue |-> 0]

\* The Sequence has received no call, no Next value is recorded and no
\* thread holds local data.
NoSequenceYet ==
    /\ seq = NewSequence
    /\ sop = "none"
    /\ sret = 0
    /\ serr = NoError
    /\ snext = -1
    /\ high = -1
    /\ text = <<>>
    /\ loc = [t \in Threads |-> <<>>]

\* new(AtomicSequence), used by one caller.
Init ==
    /\ ZeroValued
    /\ NoCallYet
    /\ NoThreadYet
    /\ NoSequenceYet
    /\ NoDumpYet
    /\ params = <<>>

InitAny == \E a \in ArgLists : InitCall(a)

UpdateAny == \E val \in Uint : UpdateCall(val)

Next ==
    \/ InitAny
    \/ NextCall
    \/ RestartCall
    \/ UpdateAny

Spec == Init /\ [][Next]_vars

\* new(AtomicSequence) and the argument list of its one Init call.
InitFresh ==
    /\ ZeroValued
    /\ NoCallYet
    /\ NoThreadYet
    /\ NoSequenceYet
    /\ NoDumpYet
    /\ params \in AllArgLists

InitOnce == op = "none" /\ InitCall(params)

SpecInit == InitFresh /\ [][InitOnce]_vars

LoadAny == \E d \in LoadInputs : LoadCall(d)

\* Update with one of the values that Init is given.
UpdateSome == \E val \in ArgVals : UpdateCall(val)

NextLoad ==
    \/ InitAny
    \/ NextCall
    \/ RestartCall
    \/ UpdateSome
    \/ LoadAny

\* One caller that may also call Load.
SpecLoad == Init /\ [][NextLoad]_vars

\* One caller that may also call Current.
NextRead ==
    \/ InitAny
    \/ NextCall
    \/ RestartCall
    \/ UpdateSome
    \/ CurrentCall

SpecRead == Init /\ [][NextRead]_vars

\* new(AtomicSequence) and the record of the one Load call made on it.
InitCodec ==
    /\ ZeroValued
    /\ NoCallYet
    /\ NoThreadYet
    /\ NoSequenceYet
    /\ params = <<>>
    /\ data \in [Keys -> Uint]
    /\ out = <<>>
    /\ restored = NewInstance

LoadOnce == nconfig = 0 /\ LoadCall(data)

NextCodec ==
    \/ LoadOnce
    \/ DumpCall
    \/ LoadDumpedCall

\* One caller that loads an instance, dumps it and loads the dump into a
\* second, new instance.
SpecCodec == InitCodec /\ [][NextCodec]_vars

\* new(AtomicSequence) and the argument list of the Init call that comes
\* first, for a caller who records the values Next returns.
InitOrder ==
    /\ ZeroValued
    /\ NoCallYet
    /\ NoThreadYet
    /\ NoSequenceYet
    /\ NoDumpYet
    /\ params \in ArgLists

NextOrder ==
    \/ InitOnce
    \/ NextRecorded
    \/ UpdateSome

\* One Init on a new instance, then Next and Update calls, no Restart.
SpecOrder == InitOrder /\ [][NextOrder]_vars

\* The argument list of the README: current one below the minimum, then the
\* minimum, the maximum and the step 2, with the largest even maximum.
ReadmeArgs == <<1, 2, MaximumBound, 2>>

\* new(AtomicSequence), new(Sequence) and the argument list that the Init
\* call of each is given.
InitPair ==
    /\ ZeroValued
    /\ NoCallYet
    /\ NoThreadYet
    /\ NoSequenceYet
    /\ NoDumpYet
    /\ params \in ArgLists \cup {ReadmeArgs}

SeqInitOnce == sop = "none" /\ SeqInitCall(params)

NextPair ==
    \/ InitOnce
    \/ NextCall
    \/ RestartCall
    \/ CurrentCall
    \/ SeqInitOnce
    \/ SeqNextCall
    \/ SeqRestartCall
    \/ SeqCurrentCall

\* An AtomicSequence and a Sequence, each used by a single caller.
SpecPair == InitPair /\ [][NextPair]_vars

\* Argument lists of the NewAtomic call whose result the threads share.
SharedArgLists == {<<>>, <<1>>, <<2, MaximumBound, 2>>}

\* The AtomicSequence that NewAtomic(params...) returned, shared by the threads.
InitConc ==
    /\ params \in SharedArgLists
    /\ ArgError(params) = NoError
    /\ increment = ArgIncrement(params)
    /\ minvalue = ArgMinvalue(params)
    /\ maxvalue = ArgMaxvalue(params)
    /\ ~StepUnderflows(minvalue, increment)
    /\ current = InitCurrent(minvalue, increment)
    /\ initialized = TRUE
    /\ op = "Init"
    /\ ret = 0
    /\ err = NoError
    /\ arg = 0
    /\ prev = "none"
    /\ nconfig = 1
    /\ via = "Init"
    /\ nnext = 0
    /\ exhausted = FALSE
    /\ NoThreadYet
    /\ NoSequenceYet
    /\ NoDumpYet

NextConc ==
    \E t \in Threads :
        \/ NextLoadIncrement(t)
        \/ NextAdd(t)
        \/ NextLoadForMin(t)
        \/ NextCompareMin(t)
        \/ NextLoadForMax(t)
        \/ NextCompareMax(t)
        \/ NextReturnLoad(t)

SpecConc == InitConc /\ [][NextConc]_vars

\* Threads that call Next and Update concurrently on a shared instance.
NextUpdateRace == \E t \in Threads : NextStep(t) \/ UpdateStep(t)

SpecUpdateRace == InitConc /\ [][NextUpdateRace]_vars

\* new(AtomicSequence) and the valid argument list that every thread gives
\* to Init.
InitZero ==
    /\ ZeroValued
    /\ NoCallYet
    /\ NoThreadYet
    /\ NoSequenceYet
    /\ NoDumpYet
    /\ params \in SharedArgLists

\* Threads that call Init concurrently on one zero-valued instance.
InitRace == \E t \in Threads : InitStep(t)

SpecInitRace == InitZero /\ [][InitRace]_vars

\* The thread whose calls are followed one memory access at a time.
Caller == 1

\* The decoded inputs the caller gives to Load: malformed, without the last
\* key, and complete.
CallerInputs ==
    {Garbage,
     [k \in Keys \ {"maxvalue"} |-> 1],
     [current |-> 0, increment |-> 1, minvalue |-> 1, maxvalue |-> MaximumBound]}

\* The instance that NewAtomic(params...) returned.
Constructed ==
    /\ ArgError(params) = NoError
    /\ increment = ArgIncrement(params)
    /\ minvalue = ArgMinvalue(params)
    /\ maxvalue = ArgMaxvalue(params)
    /\ ~StepUnderflows(minvalue, increment)
    /\ current = InitCurrent(minvalue, increment)
    /\ initialized = TRUE
    /\ op = "Init"
    /\ ret = 0
    /\ err = NoError
    /\ arg = 0
    /\ prev = "none"
    /\ nconfig = 1
    /\ via = "Init"
    /\ nnext = 0
    /\ exhausted = FALSE

\* An instance shared with other threads, either zero-valued or returned by
\* NewAtomic, with the arguments of the caller's Init and Load. One call is
\* followed: every thread has a single call left to make.
InitSteps ==
    /\ params \in SharedArgLists
    /\ (ZeroValued /\ NoCallYet) \/ Constructed
    /\ pc = [t \in Threads |-> "idle"]
    /\ reg = [t \in Threads |-> 0]
    /\ ncalls = [t \in Threads |-> MaxCallsPerThread - 1]
    /\ cnt = [v \in Uint |-> 0]
    /\ done = 0
    /\ NoSequenceYet
    /\ data \in CallerInputs
    /\ out = <<>>
    /\ restored = NewInstance

\* An atomic store to current by another thread: the add of its Next or
\* the swap of its Update, at any time and any number of times.
Interfere ==
    /\ current' \in {NextValue(current, increment)} \cup ArgVals
    /\ UNCHANGED <<config, ghost, params, conc, codec, plain, aux>>

\* One memory access of any operation of the thread t.
CallerStep(t) ==
    \/ InitStep(t)
    \/ NextStep(t)
    \/ RestartStep(t)
    \/ UpdateStep(t)
    \/ CurrentStep(t)
    \/ StartedStep(t, "IsStarted")
    \/ DumpStep(t)
    \/ LoadStep(t)

NextSteps == CallerStep(Caller) \/ Interfere

\* The caller, once inside a call, is scheduled again; the other threads
\* may run at any speed or not at all.
Proceed == pc[Caller] # "idle" /\ CallerStep(Caller)

SpecSteps == InitSteps /\ [][NextSteps]_vars /\ WF_vars(Proceed)

\* Argument lists of the caller's Init calls: the defaults, a maximum of
\* one, and a maximum that Init rejects.
CallerArgLists == {<<>>, <<1>>, <<0>>}

\* new(AtomicSequence) with the argument list and the decoded record that
\* its Init and Load calls are given.
InitEvery ==
    /\ ZeroValued
    /\ NoCallYet
    /\ NoThreadYet
    /\ NoSequenceYet
    /\ params \in CallerArgLists
    /\ data \in CallerInputs
    /\ out = <<>>
    /\ restored = NewInstance

\* Values of the caller's Update calls: the lowest one and the maximum bound.
CallerVals == {0, MaximumBound}

UpdateEither == \E val \in CallerVals : UpdateCall(val)

\* Every operation of AtomicSequence, by a single caller.
NextEvery ==
    \/ InitCall(params)
    \/ LoadCall(data)
    \/ NextCall
    \/ RestartCall
    \/ UpdateEither
    \/ CurrentCall
    \/ IsStartedCall
    \/ StringCall
    \/ DumpCall

SpecEvery == InitEvery /\ [][NextEvery]_vars

\* ------------------------------------------------------------------------
\* Properties
\* ------------------------------------------------------------------------

\* The instance was configured by its first configuration call, an Init on
\* the zero-valued instance, and only Next has been called since.
OnlyNextSinceFirstInit == initialized /\ via = "Init" /\ nconfig = 1 /\ nnext >= 0

\* The invariants the configuration is meant to satisfy.
ConfigInvariants ==
    /\ increment # 0
    /\ minvalue <= maxvalue
    /\ minvalue >= increment

\* C1: after a successful Init on a new instance with minimum m, maximum M
\* and step s (s > 0, m <= M, m >= s), the k-th Next call of a caller that
\* only calls Next returns m + (k-1)*s and no error, as long as that value
\* is at most M.
C1_SuccessiveNextValues ==
    \A k \in 1 .. Modulus :
        (/\ OnlyNextSinceFirstInit
         /\ op = "Next"
         /\ nnext = k
         /\ ConfigInvariants
         /\ minvalue + (k - 1) * increment <= maxvalue)
            => (err = NoError /\ ret = minvalue + (k - 1) * increment)

\* The second Next after Init(2, 2^(W-1) + 1, 2) has returned 4.
C1_Witness ==
    /\ OnlyNextSinceFirstInit
    /\ op = "Next"
    /\ nnext = 2
    /\ increment = 2
    /\ minvalue = 2
    /\ maxvalue = Half + 1
    /\ err = NoError
    /\ ret = 4

\* Every Next call of every thread has returned.
AllReturned == \A t \in Threads : pc[t] = "idle"

\* C2: threads that call Next concurrently on an AtomicSequence with the
\* default bounds are never handed the same value twice, and once n calls
\* have returned the values handed out are exactly 1 .. n.
C2_DistinctAndGapFree ==
    (params = <<>>) =>
        /\ \A v \in Uint : cnt[v] <= 1
        /\ AllReturned => ({v \in Uint : cnt[v] > 0} = 1 .. done)

\* C3: with one caller and no Restart or Update, once a Next call has
\* failed with AboveMaximum every later Next call fails with AboveMaximum
\* and returns 0.
C3_StickyAboveMaximum ==
    [][(/\ OnlyNextSinceFirstInit
        /\ ConfigInvariants
        /\ exhausted
        /\ op' = "Next")
           => (err' = ErrAboveMaximum /\ ret' = 0)]_vars

\* C4: whenever initialized is true (after any Init, Next, Restart and
\* Update calls on a zero-valued instance, no Load), increment # 0,
\* minvalue <= maxvalue and minvalue >= increment.
C4_ConfigInvariantsHold == initialized => ConfigInvariants

\* C5: Init on an instance that is already initialized, by Init or by Load,
\* fails with AlreadyInitialized and changes no field.
C5_ReinitRejected ==
    [][(initialized /\ op' = "Init")
           => (err' = ErrAlreadyInitialized /\ UNCHANGED fields)]_vars

\* Init has been rejected on an instance that Load had initialized.
C5_Witness ==
    /\ op = "Init"
    /\ err = ErrAlreadyInitialized
    /\ via = "Load"
    /\ initialized

\* C6: an Init call that fails leaves current, increment, minvalue, maxvalue
\* and initialized as they were before the call.
C6_FailedInitChangesNothing ==
    [][(op' = "Init" /\ err' # NoError) => UNCHANGED fields]_vars

\* C7: on a zero-valued instance a successful Init sets increment, minvalue
\* and maxvalue from its arguments by their count (defaults 1, 1 and
\* MaximumBound), current to minvalue - increment and initialized to true.
C7_InitResolvesFields ==
    (op = "Init" /\ err = NoError) =>
        /\ Len(params) = 0 =>
               (increment = 1 /\ minvalue = 1 /\ maxvalue = Modulus - 2)
        /\ Len(params) = 1 =>
               (increment = 1 /\ minvalue = 1 /\ maxvalue = params[1])
        /\ Len(params) = 2 =>
               (increment = 1 /\ minvalue = params[1] /\ maxvalue = params[2])
        /\ Len(params) = 3 =>
               (increment = params[3] /\ minvalue = params[1] /\ maxvalue = params[2])
        /\ Len(params) <= 3
        /\ (current + increment) % Modulus = minvalue
        /\ initialized

\* Init(4, MaximumBound, 2) has succeeded: current is 2, one step before 4.
C7_Witness ==
    /\ op = "Init"
    /\ err = NoError
    /\ params = <<4, MaximumBound, 2>>
    /\ current = 2
    /\ increment = 2
    /\ minvalue = 4
    /\ maxvalue = MaximumBound
    /\ initialized

\* C8: Init on a new instance returns an error and leaves initialized false
\* when one argument is below MinimumBound, when two or three arguments have
\* maxvalue < minvalue, minvalue < MinimumBound or maxvalue > MaximumBound,
\* when the step of three arguments is 0, and (with TooManyArguments) when
\* there are more than three arguments.
C8_InvalidArgumentsRejected ==
    /\ (/\ op = "Init"
        /\ \/ Len(params) = 1 /\ params[1] < MinimumBound
           \/ Len(params) \in {2, 3} /\ params[2] < params[1]
           \/ Len(params) \in {2, 3} /\ params[1] < MinimumBound
           \/ Len(params) \in {2, 3} /\ params[2] > MaximumBound
           \/ Len(params) = 3 /\ params[3] = 0
           \/ Len(params) > 3)
           => (err # NoError /\ ~initialized)
    /\ (op = "Init" /\ Len(params) > 3) => err = ErrTooManyArguments

\* Init(1, 2^W - 1, 1), whose maximum is above MaximumBound, has been rejected.
C8_Witness ==
    /\ op = "Init"
    /\ params = <<1, Modulus - 1, 1>>
    /\ err = ErrInvalidBounds
    /\ ~initialized

\* C9: Init on a new instance with two or three arguments (m, M, s), s = 1
\* for two, where s # 0 and MinimumBound <= m <= M <= MaximumBound, fails
\* with InvalidStep exactly when m < s and succeeds otherwise.
C9_InvalidStepIffBelowStep ==
    (/\ op = "Init"
     /\ Len(params) \in {2, 3}
     /\ ArgIncrement(params) # 0
     /\ MinimumBound <= params[1]
     /\ params[1] <= params[2]
     /\ params[2] <= MaximumBound)
        => /\ (err = ErrInvalidStep) <=> (params[1] < ArgIncrement(params))
           /\ (params[1] >= ArgIncrement(params)) => (err = NoError /\ initialized)

\* C10: a Next call that fails returns 0, and current stays at the old
\* current plus increment: the advance is not rolled back.
C10_FailedNextKeepsAdvance ==
    [][(op' = "Next" /\ err' # NoError)
           => (ret' = 0 /\ current' = (current + increment) % Modulus)]_vars

\* A Next on an initialized instance has failed above the maximum.
C10_Witness ==
    /\ initialized
    /\ op = "Next"
    /\ err = ErrAboveMaximum
    /\ ret = 0
    /\ current > maxvalue

\* C11: on an initialized instance Restart returns no error, IsStarted()
\* is false right after it, and the Next call that follows a Restart
\* returns minvalue without error.
C11_RestartRewinds ==
    [][/\ (initialized /\ op' = "Restart")
           => (err' = NoError /\ ~IsStarted(initialized', current', minvalue', maxvalue'))
       /\ (initialized /\ op = "Restart" /\ op' = "Next")
           => (err' = NoError /\ ret' = minvalue)]_vars

C13_UpdateMonotonic ==
    [][(initialized /\ increment > 0 /\ op' = "Update") =>
           /\ (err' = ErrNonMonotonic) <=> (arg' < current)
           /\ (err' # NoError) => (err' = ErrNonMonotonic /\ current' = current)
           /\ (err' = NoError) => current' = arg'
           /\ UNCHANGED config]_vars

\* Update has moved current above maxvalue without an error.
C13_Witness ==
    /\ op = "Update"
    /\ err = NoError
    /\ initialized
    /\ increment > 0
    /\ current = arg
    /\ current > maxvalue

\* C14: after a successful Update(v) on an initialized instance the next
\* Next call returns v + increment without error.
C14_NextAfterUpdate ==
    [][(initialized /\ op = "Update" /\ err = NoError /\ op' = "Next")
           => (err' = NoError /\ ret' = (arg + increment) % Modulus)]_vars

\* C14 as amended: after a successful Update(v) on an initialized instance
\* the next Next call returns v + increment (modulo 2^64) without error when
\* that value lies within minvalue .. maxvalue, and otherwise fails and
\* returns 0.
C14_NextAfterUpdateInRange ==
    [][(initialized /\ op = "Update" /\ err = NoError /\ op' = "Next") =>
           LET v == (arg + increment) % Modulus
           IN  /\ (minvalue <= v /\ v <= maxvalue) => (err' = NoError /\ ret' = v)
               /\ (v < minvalue \/ v > maxvalue) => (err' # NoError /\ ret' = 0)
               /\ current' = v]_vars

\* The Next after a successful Update(2) on a sequence with increment 1
\* has returned 3.
C14_Witness ==
    /\ op = "Next"
    /\ err = NoError
    /\ initialized
    /\ increment = 1
    /\ ret = 3
    /\ prev = "Update"
    /\ current = 3

\* C15: Current fails with NotInitialized and returns 0 when initialized is
\* false, fails with NotStarted and returns 0 when initialized is true but
\* current is not in [minvalue, maxvalue), and otherwise returns current
\* without error; it never modifies a field.
C15_CurrentChecks ==
    [][(op' = "Current") =>
           /\ UNCHANGED fields
           /\ ~initialized => (err' = ErrNotInitialized /\ ret' = 0)
           /\ (initialized /\ ~(minvalue <= current /\ current < maxvalue))
                  => (err' = ErrNotStarted /\ ret' = 0)
           /\ (initialized /\ minvalue <= current /\ current < maxvalue)
                  => (err' = NoError /\ ret' = current)]_vars

\* Current has failed with NotStarted on an initialized instance whose
\* current is still below minvalue.
C15_Witness ==
    /\ op = "Current"
    /\ err = ErrNotStarted
    /\ ret = 0
    /\ initialized
    /\ current < minvalue

\* C16: after every Next call that returns a value v without error on an
\* initialized instance, IsStarted() is true and a Current call that follows
\* returns v without error.
C16_StartedAfterNext ==
    [][/\ (initialized /\ op' = "Next" /\ err' = NoError)
           => IsStarted(initialized', current', minvalue', maxvalue')
       /\ (initialized /\ op = "Next" /\ err = NoError /\ op' = "Current")
           => (err' = NoError /\ ret' = ret)]_vars

\* C17: Dump succeeds on every instance with IsStarted() true, and Load of
\* its output into a new instance succeeds and gives that instance the same
\* current, increment, minvalue and maxvalue, initialized true and
\* IsStarted() true.
C17_DumpLoadRoundTrip ==
    [][/\ (IsStarted(initialized, current, minvalue, maxvalue) /\ op' = "Dump")
           => (err' = NoError /\ out' # <<>>)
       /\ (op = "Dump" /\ err = NoError /\ op' = "LoadDumped")
           => /\ err' = NoError
              /\ restored'.current = current
              /\ restored'.increment = increment
              /\ restored'.minvalue = minvalue
              /\ restored'.maxvalue = maxvalue
              /\ restored'.initialized = TRUE
              /\ IsStarted(restored'.initialized, restored'.current,
                           restored'.minvalue, restored'.maxvalue)]_vars

\* The dump of a started instance whose maximum is the largest value has
\* been loaded into a new instance.
C17_Witness ==
    /\ op = "LoadDumped"
    /\ err = NoError
    /\ out # <<>>
    /\ maxvalue = Modulus - 1
    /\ current > minvalue
    /\ minvalue > increment
    /\ restored = Self

\* C18: Dump fails with NotStarted exactly when the instance is not
\* initialized or current is not in [minvalue, maxvalue), current = maxvalue
\* included, and succeeds otherwise; it never modifies a field.
C18_DumpRequiresStarted ==
    [][(op' = "Dump") =>
           /\ UNCHANGED fields
           /\ (err' = ErrNotStarted)
                  <=> ~(initialized /\ minvalue <= current /\ current < maxvalue)
           /\ (err' = NoError)
                  <=> (initialized /\ minvalue <= current /\ current < maxvalue)]_vars

\* Dump has failed on an initialized instance whose current is maxvalue.
C18_Witness ==
    /\ op = "Dump"
    /\ err = ErrNotStarted
    /\ initialized
    /\ minvalue <= current
    /\ current = maxvalue

\* C19: Load on an instance whose initialized flag is true fails with
\* AlreadyInitialized for every input and leaves current, increment,
\* minvalue, maxvalue and initialized unchanged.
C19_LoadRejectedWhenInitialized ==
    [][(initialized /\ op' = "Load")
           => (err' = ErrAlreadyInitialized /\ UNCHANGED fields)]_vars

\* Load has been rejected on an instance that Init had initialized.
C19_Witness ==
    /\ op = "Load"
    /\ err = ErrAlreadyInitialized
    /\ initialized
    /\ via = "Init"

\* C20: a Load that fails with MalformedState on an instance that is not
\* initialized causes no partial corruption: current, increment, minvalue
\* and maxvalue keep their values and initialized stays false.
C20_FailedLoadChangesNothing ==
    [][(~initialized /\ op' = "Load" /\ err' = ErrMalformedState)
           => (UNCHANGED fields /\ ~initialized')]_vars

\* C21: once all of the n Next calls that the threads issued on an
\* initialized AtomicSequence have returned, current is
\* (minvalue - increment) + n * increment modulo 2^64.
C21_NoAdvanceLostOrDuplicated ==
    AllReturned =>
        current = (SubU(minvalue, increment) + done * increment) % Modulus

\* Every thread has made all of its Next calls on a sequence that steps by 2.
C21_Witness ==
    /\ AllReturned
    /\ done = NumThreads * MaxCallsPerThread
    /\ increment = 2
    /\ current = (2 * done) % Modulus

\* C22: every value that a concurrent Next call returns without error lies
\* within minvalue .. maxvalue.
C22_ReturnedWithinBounds ==
    \A v \in Uint : cnt[v] > 0 => (minvalue <= v /\ v <= maxvalue)

\* C28: on an instance configured by one successful Init and then driven
\* only by Next, Restart and Update calls, Next never fails with
\* BelowMinimum.
C28_NeverBelowMinimum ==
    [][(initialized /\ via = "Init" /\ nconfig = 1 /\ op' = "Next")
           => err' # ErrBelowMinimum]_vars

C30_ReturnedValuesIncrease ==
    [][(initialized /\ via = "Init" /\ ConfigInvariants /\ op' = "Next" /\ err' = NoError)
           => ret' > high]_vars

\* C25: a Sequence and an AtomicSequence given the same calls by a single
\* caller return the same values and the same error or no-error outcomes
\* and end with the same current, increment, minvalue and maxvalue; stated
\* for Init(params) on new instances and for the Next calls that follow it.
C25_SameBehaviour ==
    LET SameFields == /\ seq.current = current
                      /\ seq.increment = increment
                      /\ seq.minvalue = minvalue
                      /\ seq.maxvalue = maxvalue
    IN  /\ (op = "Init" /\ sop = "Init")
            => (((err = NoError) <=> (serr = NoError)) /\ SameFields)
        /\ (op = "Next" /\ sop = "Next" /\ nnext >= 1 /\ snext = nnext)
            => (/\ ret = sret
                /\ (err = NoError) <=> (serr = NoError)
                /\ SameFields)

\* C26: after Init with the arguments of the README (current one below the
\* minimum, minimum, maximum, step 2) on a new Sequence, the k-th Next call
\* returns minimum + 2 * (k - 1) without error while that is at most the
\* maximum, and the Next call after the maximum returns an error.
C26_ReadmeCountsEvenNumbers ==
    (params = ReadmeArgs /\ sop = "Next" /\ snext >= 1) =>
        LET v == ReadmeArgs[2] + ReadmeArgs[4] * (snext - 1)
        IN  /\ v <= ReadmeArgs[3] => (sret = v /\ serr = NoError)
            /\ v = ReadmeArgs[3] + ReadmeArgs[4] => serr # NoError

\* C27: while threads call Update and Next concurrently on an initialized
\* AtomicSequence with increment > 0, no store of Update leaves current
\* lower than it was immediately before that store.
C27_UpdateStoreNeverDecreases ==
    [][\A t \in Threads :
           (increment > 0 /\ pc[t] = "Update:swap" /\ pc'[t] = "idle")
               => current' >= current]_vars

\* C24: threads that call Init concurrently with the same valid arguments
\* on one zero-valued AtomicSequence leave, once all have returned, the
\* fields that a single Init call with these arguments leaves.
C24_ConcurrentInitIsOneInit ==
    (AllReturned /\ done > 0) =>
        /\ increment = ArgIncrement(params)
        /\ minvalue = ArgMinvalue(params)
        /\ maxvalue = ArgMaxvalue(params)
        /\ current = InitCurrent(ArgMinvalue(params), ArgIncrement(params))
        /\ initialized = TRUE

\* C23: every call of an AtomicSequence operation returns after its own
\* steps alone, whatever the other threads store in the meantime and
\* whether or not they run: a caller that is inside a call and keeps being
\* scheduled reaches the return.
C23_EveryCallReturns == (pc[Caller] # "idle") ~> (pc[Caller] = "idle")

\* The caller's Next has returned a value above maxvalue, which only a
\* store of another thread between its check and its final load produces.
C23_Witness ==
    /\ pc[Caller] = "idle"
    /\ done > 0
    /\ initialized
    /\ \E v \in Uint : cnt[v] > 0 /\ v > maxvalue

\* C31: an instance configured by a successful Init, with any number of
\* arguments, has maxvalue <= MaximumBound, and its Next never returns the
\* top value 2^W - 1 without an error.
C31_TopValueReserved ==
    (initialized /\ via = "Init" /\ nconfig = 1) =>
        /\ maxvalue <= MaximumBound
        /\ ~(op = "Next" /\ err = NoError /\ ret = Modulus - 1)

\* C32: Next, Restart, Update, Current, IsStarted, String and Dump leave
\* increment, minvalue, maxvalue and initialized as they were; only Init
\* and Load write them, and no call sets initialized from true to false.
C32_OnlyInitAndLoadConfigure ==
    [][/\ (op' \notin {"Init", "Load"}) => UNCHANGED config
       /\ initialized => initialized']_vars

\* String has described a started instance on which a second configuring
\* call had been made.
C32_Witness ==
    /\ op = "String"
    /\ initialized
    /\ nconfig = MaxConfigCalls
    /\ Len(text) > 0
    /\ text[1] = "Sequence at"

\* C33: on a zero-valued instance, before any successful Init or Load,
\* Next, Restart, Update, Current and Dump return an error and change no
\* field.
C33_UnconfiguredStaysZero ==
    [][(ZeroValued /\ op' \in {"Next", "Restart", "Update", "Current", "Dump"})
           => (err' # NoError /\ UNCHANGED fields)]_vars

=============================================================================
